---- MODULE Spec2Model ----
(***************************************************************************)
(* Conversation-session backend: the session aggregate, its event log, the *)
(* file-backed repository (one shared JSON document), the caching domain   *)
(* service and the application service that answers with {code, msg, data} *)
(* envelopes.  Every await on file I/O is a suspension point, so a request *)
(* is a process that advances one I/O or one synchronous segment at a time.*)
(***************************************************************************)
EXTENDS Integers, Sequences, FiniteSets, TLC

VARIABLES
    file,     \* sessions.json: session id -> stored record (NoRec: no entry)
    cache,    \* _sessions_cache of each service instance: id -> object
    heap,     \* the ConversationSession objects in memory
    held,     \* objects a direct caller of the library holds a reference to
    procs,    \* the requests and calls in progress, and what each returned
    now,      \* the clock datetime.utcnow() reads
    uuid,     \* uuids handed out so far
    nextSid   \* session ids handed out so far

vars == <<file, cache, heap, held, procs, now, uuid, nextSid>>

\* ------------------------------------------------------------------ bounds
MaxSessions == 2
MaxUuid == 4
MaxClock == 1
MaxObjs == 2
MaxDirect == 2
MaxSvcAdds == 1

\* ------------------------------------------------------- program constants
MaxContentLen == 10000
ResponseOverhead == 117

SessionIds == 1..MaxSessions
Refs == 1..MaxObjs
\* Two requests at a time; Insts: service instance 0 outlives the requests,
\* instance p is the one get_conversation_service() builds for request p.
Procs == {1, 2}
Insts == {0} \cup Procs
NoInst == -1
NoRef == 0
NoRec == [absent |-> TRUE]
Free == [free |-> TRUE]
NoData == [none |-> TRUE]
IsRec(x) == "session_id" \in DOMAIN x

\* ------------------------------------------------------------- strings
\* A string is kept by what the code looks at: its text, its length and
\* whether strip() leaves nothing.
Str(txt, len, blank) == [txt |-> txt, len |-> len, blank |-> blank]

EmptyStr == Str(<<>>, 0, TRUE)

\* ------------------------------------------------------------- clock
\* datetime.utcnow() at clock reading n: half-second ticks.
DT(n) == [sec |-> n \div 2, usec |-> (n % 2) * 500000]

\* datetime.isoformat(): the fraction is printed only when it is not zero.
isoformat(dt) == IF dt.usec = 0 THEN <<"T", dt.sec>> ELSE <<"T", dt.sec, dt.usec>>

\* datetime.fromisoformat()
fromisoformat(s) == [sec |-> s[2], usec |-> IF Len(s) = 3 THEN s[3] ELSE 0]

\* The attributes class Timestamp defines.
TimestampAttrs == {"value", "now"}

\* ------------------------------------------------------- value objects
Ok(v) == [exc |-> "none", val |-> v]

Raise(e) == [exc |-> e]

valid_roles == {"user", "assistant", "system"}

valid_statuses == {"pending", "running", "completed", "failed", "cancelled"}

valid_event_types == {"message", "title", "plan", "step", "tool", "error", "done"}

valid_operations == {"read", "write", "delete"}

ContentValid_OffByOne(c) == ~(c.len = 0 \/ c.blank) /\ ~(c.len >= MaxContentLen)

\* Content.__post_init__
ContentValid(c) == ~(c.len = 0 \/ c.blank) /\ ~(c.len > MaxContentLen)

RoleValid_NoCheck(r) == TRUE

\* Role.__post_init__
RoleValid(r) == r \in valid_roles

StatusValid_NoCheck(s) == TRUE

\* Status.__post_init__
StatusValid(s) == s \in valid_statuses

EventTypeValid_NoCheck(t) == TRUE

\* Event.__post_init__
EventTypeValid(t) == t \in valid_event_types

\* FilePath.__post_init__ and FileOperation.__post_init__
FileOpValid(path, op) == ~(path.len = 0 \/ path.blank) /\ op \in valid_operations

\* MessageId.generate(): a fresh uuid wrapped in a MessageId.
MessageIdOf(u) == [cls |-> "MessageId", value |-> u]

\* str(MessageId.generate()): the dataclass repr, not the bare uuid.
StrOfMessageId(u) == <<"MessageId(value=", u, ")">>

\* ------------------------------------------------------------ aggregate
\* ConversationSession(session_id, title, status, unread_message_count):
\* every other field takes its default, the two timestamps Timestamp.now().
NewSession(sid, title, status, unread, t) ==
    [session_id |-> sid, title |-> title, status |-> status,
     messages |-> <<>>, events |-> <<>>, shell_sessions |-> <<>>,
     file_operations |-> <<>>, created_at |-> DT(t), last_updated |-> DT(t),
     unread_message_count |-> unread]

\* add_message that starts the list over.
add_message_Replace(s, role, content, u, t) ==
    IF ~RoleValid(role) \/ ~ContentValid(content) THEN Raise("ValueError")
    ELSE LET m == [message_id |-> MessageIdOf(u), conversation_id |-> s.session_id,
                   role |-> role, content |-> content, timestamp |-> DT(t),
                   metadata |-> {}]
         IN Ok([s EXCEPT !.messages = <<m>>, !.last_updated = DT(t)])

add_message(s, role, content, u, t) ==
    IF ~RoleValid(role) \/ ~ContentValid(content) THEN Raise("ValueError")
    ELSE LET m == [message_id |-> MessageIdOf(u), conversation_id |-> s.session_id,
                   role |-> role, content |-> content, timestamp |-> DT(t),
                   metadata |-> {}]
         IN Ok([s EXCEPT !.messages = Append(@, m), !.last_updated = DT(t)])

add_event_Prepend(s, event_type, data, u, t) ==
    IF ~EventTypeValid(event_type) THEN Raise("ValueError")
    ELSE LET e == [event_id |-> StrOfMessageId(u), session_id |-> s.session_id,
                   event_type |-> event_type, data |-> data, timestamp |-> DT(t)]
         IN Ok([s EXCEPT !.events = <<e>> \o @, !.last_updated = DT(t)])

add_event(s, event_type, data, u, t) ==
    IF ~EventTypeValid(event_type) THEN Raise("ValueError")
    ELSE LET e == [event_id |-> StrOfMessageId(u), session_id |-> s.session_id,
                   event_type |-> event_type, data |-> data, timestamp |-> DT(t)]
         IN Ok([s EXCEPT !.events = Append(@, e), !.last_updated = DT(t)])

create_shell_session(s, shell_session_id, t) ==
    LET sh == [shell_session_id |-> shell_session_id, conversation_id |-> s.session_id,
               console |-> <<>>, created_at |-> DT(t), last_updated |-> DT(t)]
    IN Ok([s EXCEPT !.shell_sessions = Append(@, sh), !.last_updated = DT(t)])

add_file_operation(s, path, op, content, t) ==
    IF ~FileOpValid(path, op) THEN Raise("ValueError")
    ELSE LET f == [file_path |-> path, conversation_id |-> s.session_id,
                   operation_type |-> op, content |-> content, timestamp |-> DT(t)]
         IN Ok([s EXCEPT !.file_operations = Append(@, f), !.last_updated = DT(t)])

\* update_status that leaves last_updated alone.
update_status_NoTouch(s, new_status, t) ==
    IF ~StatusValid(new_status) THEN Raise("ValueError")
    ELSE Ok([s EXCEPT !.status = new_status])

update_status(s, new_status, t) ==
    IF ~StatusValid(new_status) THEN Raise("ValueError")
    ELSE Ok([s EXCEPT !.status = new_status, !.last_updated = DT(t)])

\* A counter that counts every message twice.
increment_unread_count_ByTwo(s) == Ok([s EXCEPT !.unread_message_count = @ + 2])

increment_unread_count(s) == Ok([s EXCEPT !.unread_message_count = @ + 1])

clear_unread_count(s) == Ok([s EXCEPT !.unread_message_count = 0])

\* ----------------------------------------------------------- repository
SeqMap(Op(_), q) == [i \in 1..Len(q) |-> Op(q[i])]

SerMessage(m) ==
    [message_id |-> m.message_id.value, role |-> m.role, content |-> m.content,
     timestamp |-> isoformat(m.timestamp), metadata |-> m.metadata]

SerEvent(e) ==
    [event_id |-> e.event_id, event_type |-> e.event_type, data |-> e.data,
     timestamp |-> isoformat(e.timestamp)]

SerShell(sh) ==
    [shell_session_id |-> sh.shell_session_id, console |-> sh.console,
     created_at |-> isoformat(sh.created_at), last_updated |-> isoformat(sh.last_updated)]

SerFileOp(f) ==
    [file_path |-> f.file_path, operation_type |-> f.operation_type,
     content |-> f.content, timestamp |-> isoformat(f.timestamp)]

\* save_session, the record built for sessions[session.session_id.value]:
\* msg.message_id.value raises AttributeError on a message_id that is a str.
Serialize(s) ==
    IF \E i \in 1..Len(s.messages) : s.messages[i].message_id.cls # "MessageId"
    THEN Raise("AttributeError")
    ELSE Ok([session_id |-> s.session_id, title |-> s.title, status |-> s.status,
             messages |-> SeqMap(SerMessage, s.messages),
             events |-> SeqMap(SerEvent, s.events),
             shell_sessions |-> SeqMap(SerShell, s.shell_sessions),
             file_operations |-> SeqMap(SerFileOp, s.file_operations),
             created_at |-> isoformat(s.created_at),
             last_updated |-> isoformat(s.last_updated),
             unread_message_count |-> s.unread_message_count])

LoadMessage(sid, d) ==
    [message_id |-> [cls |-> "str", value |-> d.message_id], conversation_id |-> sid,
     role |-> d.role, content |-> d.content,
     timestamp |-> fromisoformat(d.timestamp), metadata |-> d.metadata]

LoadEvent(sid, d) ==
    [event_id |-> d.event_id, session_id |-> sid, event_type |-> d.event_type,
     data |-> d.data, timestamp |-> fromisoformat(d.timestamp)]

LoadShell(sid, d) ==
    [shell_session_id |-> d.shell_session_id, conversation_id |-> sid,
     console |-> d.console, created_at |-> fromisoformat(d.created_at),
     last_updated |-> fromisoformat(d.last_updated)]

\* load_session from the record `data` at clock reading t.  The name
\* Timestamp is local to the function and is bound by the import inside the
\* message loop, so it is unbound when the record holds no message.
Deserialize(data, t) ==
    LET sid == data.session_id
        TimestampBound == Len(data.messages) > 0
    IN  IF ~StatusValid(data.status) THEN Raise("ValueError")
        ELSE IF \E i \in 1..Len(data.messages) :
                    ~RoleValid(data.messages[i].role) \/ ~ContentValid(data.messages[i].content)
        THEN Raise("ValueError")
        ELSE IF Len(data.events) > 0 /\ ~TimestampBound THEN Raise("UnboundLocalError")
        ELSE IF \E i \in 1..Len(data.events) : ~EventTypeValid(data.events[i].event_type)
        THEN Raise("ValueError")
        ELSE IF Len(data.shell_sessions) > 0 /\ ~TimestampBound THEN Raise("UnboundLocalError")
        ELSE Ok([NewSession(sid, data.title, data.status, data.unread_message_count, t)
                 EXCEPT !.messages = [i \in 1..Len(data.messages) |-> LoadMessage(sid, data.messages[i])],
                        !.events = [i \in 1..Len(data.events) |-> LoadEvent(sid, data.events[i])],
                        !.shell_sessions = [i \in 1..Len(data.shell_sessions) |-> LoadShell(sid, data.shell_sessions[i])]])

\* json.loads(content) if content else {}: the document as a map from every
\* session id to its record or to NoRec; the truncated file reads as {}.
EmptyDoc == [i \in SessionIds |-> NoRec]

\* ------------------------------------------------------------ envelopes
Envelope(code, msg, data) == [code |-> code, msg |-> msg, data |-> data]

NoRet == Envelope(-1, "", NoData)

\* dict.get(key, default) on a dict kept as a set of <<key, value>> pairs.
DictGet(d, k, default) ==
    IF \E kv \in d : kv[1] = k THEN (CHOOSE kv \in d : kv[1] = k)[2] ELSE default

\* EventManagementService.create_event: add_event inside try/except; every
\* exception is printed and swallowed, no handler is ever registered.
create_event(s, event_type, data, u, t) ==
    LET r == add_event(s, event_type, data, u, t)
    IN  IF r.exc = "none" THEN [ok |-> TRUE, s |-> r.val] ELSE [ok |-> FALSE, s |-> s]

\* ConversationApplicationService._generate_ai_response
generate_ai_response(m) ==
    Str(<<"I understand you said: '">> \o m.txt \o <<"'. How can I help you ...">>, m.len + ResponseOverhead, FALSE)

\* get_session's answer for a session that was found: event.timestamp is a
\* Timestamp, and the code calls isoformat() on it, not on its value.
GetSessionEnvelope(s) ==
    IF Len(s.events) > 0 /\ "isoformat" \notin TimestampAttrs
    THEN Envelope(500, "AttributeError", NoData)
    ELSE Envelope(0, "success",
             [session_id |-> s.session_id, title |-> s.title,
              events |-> [i \in 1..Len(s.events) |->
                  [event_id |-> s.events[i].event_id,
                   event_type |-> s.events[i].event_type,
                   data |-> s.events[i].data,
                   timestamp |-> isoformat(s.events[i].timestamp)]]])

\* An answer for an unknown id that reports success.
NotFound_Success == Envelope(0, "success", NoData)

NotFound == Envelope(404, "Session not found", NoData)

IsHistoryEvent(e) == e.event_type \in {"message_received", "message_sent"}

HistoryEntry(e) ==
    [role |-> IF e.event_type = "message_received" THEN "user" ELSE "assistant",
     content |-> DictGet(e.data, "content", EmptyStr),
     timestamp |-> e.timestamp]

\* GetSessionHistoryQueryHandler.handle, from get_session's answer.
HistoryEnvelope(env) ==
    IF env.code # 0 THEN env
    ELSE Envelope(0, "success",
             [session_id |-> env.data.session_id, title |-> env.data.title,
              messages |-> SeqMap(HistoryEntry, SelectSeq(env.data.events, IsHistoryEvent))])

\* list_sessions: one summary per loaded session.
Summary(s) ==
    [session_id |-> s.session_id, title |-> s.title,
     latest_message |-> IF Len(s.messages) > 0
                        THEN s.messages[Len(s.messages)].content ELSE EmptyStr,
     latest_message_at |-> IF Len(s.messages) > 0
                           THEN s.messages[Len(s.messages)].timestamp.sec ELSE 0,
     status |-> s.status, unread_message_count |-> s.unread_message_count]

ListEnvelope(sessions) ==
    Envelope(0, "success", [sessions |-> SeqMap(Summary, sessions)])

\* process_chat_message after get_session found the object r.
ChatSegment(pr, h, r, u, t) ==
    LET m1 == add_message(h[r], "user", pr.msg, u + 1, t)
    IN  IF m1.exc # "none"
        THEN [heap |-> h, uuid |-> u, ret |-> Envelope(500, m1.exc, NoData)]
        ELSE LET ev == create_event(m1.val, "message_received",
                           {<<"message", pr.msg>>, <<"timestamp", 0>>, <<"event_id", "None">>},
                           u + 2, t)
                 u2 == IF ev.ok THEN u + 2 ELSE u + 1
                 resp == generate_ai_response(pr.msg)
                 m2 == add_message(ev.s, "assistant", resp, u2 + 1, t)
             IN  IF m2.exc # "none"
                 THEN [heap |-> [h EXCEPT ![r] = ev.s], uuid |-> u2,
                       ret |-> Envelope(500, m2.exc, NoData)]
                 ELSE [heap |-> [h EXCEPT ![r] = m2.val], uuid |-> u2 + 1,
                       ret |-> Envelope(0, "success",
                                   [response |-> resp, message_id |-> u2 + 1])]

\* stop_session after get_session found the object r.
StopSegment(pr, h, r, u, t) ==
    LET st == update_status(h[r], "stopped", t)
    IN  IF st.exc # "none"
        THEN [heap |-> h, uuid |-> u, ret |-> Envelope(500, st.exc, NoData)]
        ELSE [heap |-> [h EXCEPT ![r] = st.val], uuid |-> u,
              ret |-> Envelope(0, "success", NoData)]

\* An application service whose history query logs an event in the session.
AfterGet_Logging(pr, h, r, u, t) ==
    IF r = NoRef THEN [heap |-> h, uuid |-> u, ret |-> NotFound]
    ELSE CASE pr.op = "get_session" ->
                  [heap |-> h, uuid |-> u, ret |-> GetSessionEnvelope(h[r])]
           [] pr.op = "history" ->
                  [heap |-> [h EXCEPT ![r] = add_event(h[r], "message", {}, u, t).val],
                   uuid |-> u, ret |-> HistoryEnvelope(GetSessionEnvelope(h[r]))]
           [] pr.op = "stop_session" -> StopSegment(pr, h, r, u, t)
           [] pr.op = "process_chat_message" -> ChatSegment(pr, h, r, u, t)

\* What an application-service operation does, in one synchronous segment,
\* once the domain service's get_session has returned r (NoRef: None).
AfterGet(pr, h, r, u, t) ==
    IF r = NoRef THEN [heap |-> h, uuid |-> u, ret |-> NotFound]
    ELSE CASE pr.op = "get_session" ->
                  [heap |-> h, uuid |-> u, ret |-> GetSessionEnvelope(h[r])]
           [] pr.op = "history" ->
                  [heap |-> h, uuid |-> u, ret |-> HistoryEnvelope(GetSessionEnvelope(h[r]))]
           [] pr.op = "stop_session" -> StopSegment(pr, h, r, u, t)
           [] pr.op = "process_chat_message" -> ChatSegment(pr, h, r, u, t)

\* ------------------------------------------------------------- processes
IdleProc ==
    [pc |-> "idle", op |-> "none", inst |-> NoInst, sid |-> 0, title |-> "",
     msg |-> EmptyStr, obj |-> NoRef, sess |-> NoRef,
     rec |-> NoRec, doc |-> EmptyDoc, todo |-> <<>>, acc |-> <<>>,
     ret |-> NoRet, exc |-> "none"]

Ready(p) == procs[p].pc \in {"idle", "done"}

Call(op, inst, sid) == [IdleProc EXCEPT !.op = op, !.inst = inst, !.sid = sid]

\* The call returns `ret` or raises `exc`: its locals go, its answer stays
\* until p's next call.
Return(pr, ret, exc) ==
    [pr EXCEPT !.pc = "done", !.ret = ret, !.exc = exc, !.sess = NoRef,
               !.rec = NoRec, !.doc = EmptyDoc, !.todo = <<>>, !.acc = <<>>]

Referenced(r, c, hd, ps) ==
    \/ r \in hd
    \/ \E i \in Insts, k \in SessionIds : c[i][k] = r
    \/ \E q \in Procs : ps[q].sess = r

\* Objects nothing refers to any more are gone.
Collect(h, c, hd, ps) ==
    [r \in Refs |-> IF Referenced(r, c, hd, ps) THEN h[r] ELSE Free]

\* The service instance built for one request goes with the request.
DropInst(c, pr) ==
    IF pr.inst \in Procs THEN [c EXCEPT ![pr.inst] = [k \in SessionIds |-> NoRef]] ELSE c

FreeRefs(h) == {r \in Refs : ~IsRec(h[r])}

NewRef(h) == CHOOSE r \in FreeRefs(h) : \A r2 \in FreeRefs(h) : r <= r2

\* p's call ends, leaving heap h, cache c and held references hd behind.
Finish(p, h, c, hd, ret, exc) ==
    LET ps == [procs EXCEPT ![p] = Return(@, ret, exc)]
        c2 == DropInst(c, procs[p])
    IN  /\ procs' = ps
        /\ cache' = c2
        /\ held' = hd
        /\ heap' = Collect(h, c2, hd, ps)

\* p moves on to the next suspension point.
Goto(p, pr, pc) == procs' = [procs EXCEPT ![p] = [pr EXCEPT !.pc = pc]]

Retd(v) == Envelope(0, "returned", v)

Chat == "process_chat_message"

AppOps == {"create_session", "get_session", "history", "list_sessions",
           "delete_session", "stop_session", "process_chat_message"}

\* The application service without its except clauses.
Fail_Propagate(p, h, c, e) == Finish(p, h, c, held, NoRet, e)

\* An exception e ends p's call: the application service turns it into a
\* code 500 envelope, a direct call of the library lets it through.
Fail(p, h, c, e) ==
    IF procs[p].op \in AppOps
    THEN Finish(p, h, c, held, Envelope(500, e, NoData), "none")
    ELSE Finish(p, h, c, held, NoRet, e)

\* The operations of ConversationRepositoryService called by a caller of
\* its own, without the application service around them.
SvcGetOps == {"svc_get", "svc_stop"}

SvcOps == SvcGetOps \cup {"svc_create", "svc_delete", "svc_list"}

\* A bool handed back to the caller.
Bool(b) == Retd([bool |-> b])

\* Finish for a call that is entered and left in one step: pr is the record
\* of the call.
FinishAs(p, pr, h, c, hd, ret, exc) ==
    LET ps == [procs EXCEPT ![p] = Return(pr, ret, exc)]
        c2 == DropInst(c, pr)
    IN  /\ procs' = ps
        /\ cache' = c2
        /\ held' = hd
        /\ heap' = Collect(h, c2, hd, ps)

\* ConversationRepositoryService.get_session / stop_session once the cache
\* or the repository has answered with r (NoRef: None), the cache being c.
\* get_session hands r to its caller, who looks at it and keeps no reference
\* of its own; stop_session calls update_status("stopped") and goes on to
\* save the session.
SvcAfterGet(p, pr, h, c, r) ==
    IF r = NoRef
    THEN FinishAs(p, pr, h, c, held, IF pr.op = "svc_get" THEN Retd(NoData) ELSE Bool(FALSE), "none")
    ELSE IF pr.op = "svc_get"
    THEN FinishAs(p, pr, h, c, held, Retd([ref |-> r]), "none")
    ELSE LET st == update_status(h[r], "stopped", now)
         IN  IF st.exc # "none"
             THEN FinishAs(p, pr, h, c, held, NoRet, st.exc)
             ELSE /\ procs' = [procs EXCEPT ![p] = [pr EXCEPT !.pc = "save_read", !.sess = r]]
                  /\ heap' = [h EXCEPT ![r] = st.val]
                  /\ cache' = c
                  /\ held' = held

\* What delete_session answers: the domain service a bool, the application
\* service code 0 or 404.
DeleteAnswer(pr, found) ==
    IF pr.op = "svc_delete" THEN Bool(found)
    ELSE IF found THEN Envelope(0, "success", NoData) ELSE NotFound

\* What list_sessions answers: the domain service the sessions, the
\* application service their summaries.
ListAnswer(pr, sessions) ==
    IF pr.op = "svc_list" THEN Retd([sessions |-> sessions]) ELSE ListEnvelope(sessions)

\* ------------------------------------------------------------------ clock
Tick ==
    /\ now < MaxClock
    /\ now' = now + 1
    /\ UNCHANGED <<file, cache, heap, held, procs, uuid, nextSid>>

\* ------------------------------------------- direct calls on an aggregate
\* session.add_event(event_type, data) on the object r.  A uuid that ends
\* in no object (the call raised) is not counted; MaxDirect bounds what
\* direct calls put into one session.
CallAddEvent(p, r, event_type, data) ==
    /\ Ready(p)
    /\ r \in held
    /\ LET res == add_event(heap[r], event_type, data, uuid + 1, now)
           pr == [Call("add_event", NoInst, heap[r].session_id) EXCEPT !.obj = r]
       IN  IF res.exc = "none"
           THEN /\ uuid < MaxUuid
                /\ Len(heap[r].messages) + Len(heap[r].events) < MaxDirect
                /\ uuid' = uuid + 1
                /\ heap' = [heap EXCEPT ![r] = res.val]
                /\ procs' = [procs EXCEPT ![p] = Return(pr, Retd(NoData), "none")]
           ELSE /\ procs' = [procs EXCEPT ![p] = Return(pr, NoRet, res.exc)]
                /\ UNCHANGED <<heap, uuid>>
    /\ UNCHANGED <<file, cache, held, now, nextSid>>

\* session.add_message(role, content) on the object r.
CallAddMessage(p, r, role, content) ==
    /\ Ready(p)
    /\ r \in held
    /\ LET res == add_message(heap[r], role, content, uuid + 1, now)
           pr == [Call("add_message", NoInst, heap[r].session_id) EXCEPT !.obj = r]
       IN  IF res.exc = "none"
           THEN /\ uuid < MaxUuid
                /\ Len(heap[r].messages) + Len(heap[r].events) < MaxDirect
                /\ uuid' = uuid + 1
                /\ heap' = [heap EXCEPT ![r] = res.val]
                /\ procs' = [procs EXCEPT ![p] = Return(pr, Retd(NoData), "none")]
           ELSE /\ procs' = [procs EXCEPT ![p] = Return(pr, NoRet, res.exc)]
                /\ UNCHANGED <<heap, uuid>>
    /\ UNCHANGED <<file, cache, held, now, nextSid>>

\* session.update_status(new_status) on the object r.
CallUpdateStatus(p, r, new_status) ==
    /\ Ready(p)
    /\ r \in held
    /\ LET res == update_status(heap[r], new_status, now)
           pr == [Call("update_status", NoInst, heap[r].session_id) EXCEPT !.obj = r]
       IN  IF res.exc = "none"
           THEN /\ heap' = [heap EXCEPT ![r] = res.val]
                /\ procs' = [procs EXCEPT ![p] = Return(pr, Retd(NoData), "none")]
           ELSE /\ procs' = [procs EXCEPT ![p] = Return(pr, NoRet, res.exc)]
                /\ UNCHANGED heap
    /\ UNCHANGED <<file, cache, held, now, uuid, nextSid>>

\* session.create_shell_session(shell_session_id) on the object r;
\* MaxDirect bounds the shell sessions and file operations of one session.
CallCreateShellSession(p, r, shell_session_id) ==
    /\ Ready(p)
    /\ r \in held
    /\ Len(heap[r].shell_sessions) + Len(heap[r].file_operations) < MaxDirect
    /\ LET res == create_shell_session(heap[r], shell_session_id, now)
           pr == [Call("create_shell_session", NoInst, heap[r].session_id) EXCEPT !.obj = r]
       IN  /\ heap' = [heap EXCEPT ![r] = res.val]
           /\ procs' = [procs EXCEPT ![p] = Return(pr, Retd(NoData), "none")]
    /\ UNCHANGED <<file, cache, held, now, uuid, nextSid>>

\* session.add_file_operation(file_path, operation_type, content) on r.
CallAddFileOperation(p, r, path, op, content) ==
    /\ Ready(p)
    /\ r \in held
    /\ LET res == add_file_operation(heap[r], path, op, content, now)
           pr == [Call("add_file_operation", NoInst, heap[r].session_id) EXCEPT !.obj = r]
       IN  IF res.exc = "none"
           THEN /\ Len(heap[r].shell_sessions) + Len(heap[r].file_operations) < MaxDirect
                /\ heap' = [heap EXCEPT ![r] = res.val]
                /\ procs' = [procs EXCEPT ![p] = Return(pr, Retd(NoData), "none")]
           ELSE /\ procs' = [procs EXCEPT ![p] = Return(pr, NoRet, res.exc)]
                /\ UNCHANGED heap
    /\ UNCHANGED <<file, cache, held, now, uuid, nextSid>>

\* session.increment_unread_count() on r; MaxDirect bounds the count.
CallIncrementUnread(p, r) ==
    /\ Ready(p)
    /\ r \in held
    /\ heap[r].unread_message_count < MaxDirect
    /\ heap' = [heap EXCEPT ![r] = increment_unread_count(heap[r]).val]
    /\ procs' = [procs EXCEPT ![p] =
           Return([Call("increment_unread_count", NoInst, heap[r].session_id) EXCEPT !.obj = r],
                  Retd(NoData), "none")]
    /\ UNCHANGED <<file, cache, held, now, uuid, nextSid>>

\* session.clear_unread_count() on r.
CallClearUnread(p, r) ==
    /\ Ready(p)
    /\ r \in held
    /\ heap' = [heap EXCEPT ![r] = clear_unread_count(heap[r]).val]
    /\ procs' = [procs EXCEPT ![p] =
           Return([Call("clear_unread_count", NoInst, heap[r].session_id) EXCEPT !.obj = r],
                  Retd(NoData), "none")]
    /\ UNCHANGED <<file, cache, held, now, uuid, nextSid>>

\* ------------------------------------------------ requests: the read path
\* get_session, GetSessionHistory, stop_session and process_chat_message
\* begin with the domain service's get_session: a cached id is answered in
\* the same synchronous segment, any other id goes to the repository.
StartGet(p, op, inst, sid, msg) ==
    /\ Ready(p)
    /\ LET pr == [Call(op, inst, sid) EXCEPT !.msg = msg]
       IN  IF cache[inst][sid] # NoRef
           THEN LET b == AfterGet(pr, heap, cache[inst][sid], uuid, now)
                    ps == [procs EXCEPT ![p] = Return(pr, b.ret, "none")]
                    c2 == DropInst(cache, pr)
                IN  /\ b.uuid <= MaxUuid
                    /\ uuid' = b.uuid
                    /\ procs' = ps
                    /\ cache' = c2
                    /\ heap' = Collect(b.heap, c2, held, ps)
           ELSE /\ Goto(p, pr, "load_read")
                /\ UNCHANGED <<cache, heap, uuid>>
    /\ UNCHANGED <<file, held, now, nextSid>>

\* repository.load_session(session_id) called directly.
StartRepoLoad(p, sid) ==
    /\ Ready(p)
    /\ Goto(p, Call("repo_load", NoInst, sid), "load_read")
    /\ UNCHANGED <<file, cache, heap, held, now, uuid, nextSid>>

\* _load_all_sessions inside load_session: the read of the document.
LoadRead(p) ==
    /\ procs[p].pc = "load_read"
    /\ Goto(p, [procs[p] EXCEPT !.rec = file[procs[p].sid]], "load_build")
    /\ UNCHANGED <<file, cache, heap, held, now, uuid, nextSid>>

\* load_session after the read: None for a missing id, else the session is
\* rebuilt; the domain service caches it and the operation carries on.
LoadBuild(p) ==
    /\ procs[p].pc = "load_build"
    /\ LET pr == procs[p]
           d == IF IsRec(pr.rec) THEN Deserialize(pr.rec, now) ELSE Raise("absent")
       IN  IF pr.op \in SvcGetOps /\ d.exc \in {"absent", "none"}
           THEN /\ IF d.exc = "absent"
                   THEN SvcAfterGet(p, pr, heap, cache, NoRef)
                   ELSE /\ FreeRefs(heap) # {}
                        /\ LET r == NewRef(heap)
                           IN  SvcAfterGet(p, pr, [heap EXCEPT ![r] = d.val],
                                           [cache EXCEPT ![pr.inst][pr.sid] = r], r)
                /\ UNCHANGED uuid
           ELSE IF d.exc = "absent"
           THEN /\ IF pr.op = "repo_load"
                   THEN Finish(p, heap, cache, held, Retd(NoData), "none")
                   ELSE Finish(p, heap, cache, held, NotFound, "none")
                /\ UNCHANGED uuid
           ELSE IF d.exc # "none"
           THEN Fail(p, heap, cache, d.exc) /\ UNCHANGED uuid
           ELSE /\ FreeRefs(heap) # {}
                /\ LET r == NewRef(heap)
                       h1 == [heap EXCEPT ![r] = d.val]
                   IN  IF pr.op = "repo_load"
                       THEN /\ Finish(p, h1, cache, held \cup {r}, Retd([ref |-> r]), "none")
                            /\ UNCHANGED uuid
                       ELSE LET c1 == [cache EXCEPT ![pr.inst][pr.sid] = r]
                                b == AfterGet(pr, h1, r, uuid, now)
                            IN  /\ b.uuid <= MaxUuid
                                /\ uuid' = b.uuid
                                /\ Finish(p, b.heap, c1, held, b.ret, "none")
    /\ UNCHANGED <<file, now, nextSid>>

\* ----------------------------------------------- requests: the write path
\* create_session: the domain service constructs the session and calls
\* repository.save_session.
StartCreate(p, inst, title) ==
    /\ Ready(p)
    /\ nextSid <= MaxSessions
    /\ FreeRefs(heap) # {}
    /\ LET r == NewRef(heap)
           pr == [Call("create_session", inst, nextSid) EXCEPT !.title = title, !.sess = r]
       IN  /\ heap' = [heap EXCEPT ![r] = NewSession(nextSid, title, "pending", 0, now)]
           /\ Goto(p, pr, "save_read")
    /\ nextSid' = nextSid + 1
    /\ UNCHANGED <<file, cache, held, now, uuid>>

\* repository.save_session(session) called directly on the object r.
StartRepoSave(p, r) ==
    /\ Ready(p)
    /\ r \in held
    /\ Goto(p, [Call("repo_save", NoInst, heap[r].session_id) EXCEPT !.sess = r, !.obj = r],
            "save_read")
    /\ UNCHANGED <<file, cache, heap, held, now, uuid, nextSid>>

\* _load_all_sessions inside save_session.
SaveRead(p) ==
    /\ procs[p].pc = "save_read"
    /\ Goto(p, [procs[p] EXCEPT !.doc = file], "save_ser")
    /\ UNCHANGED <<file, cache, heap, held, now, uuid, nextSid>>

\* save_session after the read: the session as it is now goes into the
\* document that was read.
SaveSer(p) ==
    /\ procs[p].pc = "save_ser"
    /\ LET pr == procs[p]
           ser == Serialize(heap[pr.sess])
       IN  IF ser.exc # "none"
           THEN Fail(p, heap, cache, ser.exc)
           ELSE /\ Goto(p, [pr EXCEPT !.doc = [@ EXCEPT ![pr.sid] = ser.val]], "save_open")
                /\ UNCHANGED <<cache, heap, held>>
    /\ UNCHANGED <<file, now, uuid, nextSid>>

\* aiofiles.open(sessions_file, 'w'): the file is truncated.
SaveOpen(p) ==
    /\ procs[p].pc = "save_open"
    /\ file' = EmptyDoc
    /\ Goto(p, procs[p], "save_write")
    /\ UNCHANGED <<cache, heap, held, now, uuid, nextSid>>

\* f.write(json.dumps(sessions)) and the close; create_session then fires
\* session_created on the object it holds and answers.
SaveWrite(p) ==
    /\ procs[p].pc = "save_write"
    /\ file' = procs[p].doc
    /\ LET pr == procs[p]
       IN  IF pr.op = "create_session"
           THEN LET ev == create_event(heap[pr.sess], "session_created",
                              {<<"title", pr.title>>}, uuid + 1, now)
                IN  /\ ev.ok => uuid < MaxUuid
                    /\ uuid' = IF ev.ok THEN uuid + 1 ELSE uuid
                    /\ Finish(p, [heap EXCEPT ![pr.sess] = ev.s], cache, held,
                              Envelope(0, "success", [session_id |-> pr.sid]), "none")
           ELSE /\ CASE pr.op = "svc_create" ->
                          Finish(p, heap, cache, held \cup {pr.sess}, Retd([ref |-> pr.sess]), "none")
                     [] pr.op = "svc_stop" ->
                          Finish(p, heap, [cache EXCEPT ![pr.inst][pr.sid] = pr.sess], held,
                                 Bool(TRUE), "none")
                     [] OTHER -> Finish(p, heap, cache, held, Retd(NoData), "none")
                /\ UNCHANGED uuid
    /\ UNCHANGED <<now, nextSid>>

\* ------------------------------------------------------ requests: delete
\* delete_session with the entry left in the cache.
StartDelete_NoEvict(p, inst, sid) ==
    /\ Ready(p)
    /\ Goto(p, Call("delete_session", inst, sid), "del_read")
    /\ UNCHANGED <<file, cache, heap, held, now, uuid, nextSid>>

\* delete_session: the domain service evicts the id from its cache, then
\* calls repository.delete_session.
StartDelete(p, inst, sid) ==
    /\ Ready(p)
    /\ LET pr == [Call("delete_session", inst, sid) EXCEPT !.pc = "del_read"]
           ps == [procs EXCEPT ![p] = pr]
           c1 == [cache EXCEPT ![inst][sid] = NoRef]
       IN  /\ procs' = ps
           /\ cache' = c1
           /\ heap' = Collect(heap, c1, held, ps)
    /\ UNCHANGED <<file, held, now, uuid, nextSid>>

\* _load_all_sessions inside delete_session; an id that is not in the
\* document ends the call with False.
DelRead(p) ==
    /\ procs[p].pc = "del_read"
    /\ IF IsRec(file[procs[p].sid])
       THEN /\ Goto(p, [procs[p] EXCEPT !.doc = file], "del_open")
            /\ UNCHANGED <<cache, heap, held>>
       ELSE Finish(p, heap, cache, held, DeleteAnswer(procs[p], FALSE), "none")
    /\ UNCHANGED <<file, now, uuid, nextSid>>

DelOpen(p) ==
    /\ procs[p].pc = "del_open"
    /\ file' = EmptyDoc
    /\ Goto(p, procs[p], "del_write")
    /\ UNCHANGED <<cache, heap, held, now, uuid, nextSid>>

\* delete_session that writes an empty document.
DelWrite_Empty(p) ==
    /\ procs[p].pc = "del_write"
    /\ file' = EmptyDoc
    /\ Finish(p, heap, cache, held, DeleteAnswer(procs[p], TRUE), "none")
    /\ UNCHANGED <<now, uuid, nextSid>>

DelWrite(p) ==
    /\ procs[p].pc = "del_write"
    /\ file' = [procs[p].doc EXCEPT ![procs[p].sid] = NoRec]
    /\ Finish(p, heap, cache, held, DeleteAnswer(procs[p], TRUE), "none")
    /\ UNCHANGED <<now, uuid, nextSid>>

\* -------------------------------------------------------- requests: list
StartList(p, inst) ==
    /\ Ready(p)
    /\ Goto(p, Call("list_sessions", inst, 0), "list_read")
    /\ UNCHANGED <<file, cache, heap, held, now, uuid, nextSid>>

RECURSIVE KeysFrom(_, _)
\* The ids with a record in doc, from k on, in the order of the document
\* (ids are handed out in increasing order).
KeysFrom(doc, k) ==
    IF k > MaxSessions THEN <<>>
    ELSE IF IsRec(doc[k]) THEN <<k>> \o KeysFrom(doc, k + 1) ELSE KeysFrom(doc, k + 1)

\* _load_all_sessions inside list_sessions: the ids to load.
ListRead(p) ==
    /\ procs[p].pc = "list_read"
    /\ LET todo == KeysFrom(file, 1)
       IN  IF todo = <<>>
           THEN Finish(p, heap, cache, held, ListAnswer(procs[p], <<>>), "none")
           ELSE /\ Goto(p, [procs[p] EXCEPT !.todo = todo], "list_load")
                /\ UNCHANGED <<cache, heap, held>>
    /\ UNCHANGED <<file, now, uuid, nextSid>>

\* One load_session of the loop in list_sessions: it reads the document
\* again; an id that is gone by now is skipped.
ListLoad(p) ==
    /\ procs[p].pc = "list_load"
    /\ LET pr == procs[p]
           rec == file[Head(pr.todo)]
           d == IF IsRec(rec) THEN Deserialize(rec, now) ELSE Raise("absent")
           acc == IF d.exc = "none" THEN Append(pr.acc, d.val) ELSE pr.acc
       IN  IF d.exc \notin {"none", "absent"}
           THEN Fail(p, heap, cache, d.exc)
           ELSE IF Len(pr.todo) = 1
           THEN Finish(p, heap, cache, held, ListAnswer(pr, acc), "none")
           ELSE /\ Goto(p, [pr EXCEPT !.todo = Tail(@), !.acc = acc], "list_load")
                /\ UNCHANGED <<cache, heap, held>>
    /\ UNCHANGED <<file, now, uuid, nextSid>>

\* ------------------------------------- the domain service, called directly
\* get_session that goes to the repository whatever the cache holds.
StartSvcGet_NoCache(p, op, inst, sid) ==
    /\ Ready(p)
    /\ Goto(p, Call(op, inst, sid), "load_read")
    /\ UNCHANGED <<file, cache, heap, held, now, uuid, nextSid>>

\* ConversationRepositoryService.get_session / stop_session: cache first.
StartSvcGet(p, op, inst, sid) ==
    /\ Ready(p)
    /\ LET pr == Call(op, inst, sid)
       IN  IF cache[inst][sid] # NoRef
           THEN SvcAfterGet(p, pr, heap, cache, cache[inst][sid])
           ELSE /\ Goto(p, pr, "load_read")
                /\ UNCHANGED <<cache, heap, held>>
    /\ UNCHANGED <<file, now, uuid, nextSid>>

\* create_session that puts the new session into the cache.
StartSvcCreate_Cached(p, inst, title) ==
    /\ Ready(p)
    /\ nextSid <= MaxSessions
    /\ FreeRefs(heap) # {}
    /\ LET r == NewRef(heap)
           pr == [Call("svc_create", inst, nextSid) EXCEPT !.title = title, !.sess = r]
       IN  /\ heap' = [heap EXCEPT ![r] = NewSession(nextSid, title, "pending", 0, now)]
           /\ cache' = [cache EXCEPT ![inst][nextSid] = r]
           /\ Goto(p, pr, "save_read")
    /\ nextSid' = nextSid + 1
    /\ UNCHANGED <<file, held, now, uuid>>

\* ConversationRepositoryService.create_session: the session is
\* constructed and saved.
StartSvcCreate(p, inst, title) ==
    /\ Ready(p)
    /\ nextSid <= MaxSessions
    /\ FreeRefs(heap) # {}
    /\ LET r == NewRef(heap)
           pr == [Call("svc_create", inst, nextSid) EXCEPT !.title = title, !.sess = r]
       IN  /\ heap' = [heap EXCEPT ![r] = NewSession(nextSid, title, "pending", 0, now)]
           /\ Goto(p, pr, "save_read")
    /\ nextSid' = nextSid + 1
    /\ UNCHANGED <<file, cache, held, now, uuid>>

\* ConversationRepositoryService.delete_session: evict, then delete.
StartSvcDelete(p, inst, sid) ==
    /\ Ready(p)
    /\ LET pr == [Call("svc_delete", inst, sid) EXCEPT !.pc = "del_read"]
           ps == [procs EXCEPT ![p] = pr]
           c1 == [cache EXCEPT ![inst][sid] = NoRef]
       IN  /\ procs' = ps
           /\ cache' = c1
           /\ heap' = Collect(heap, c1, held, ps)
    /\ UNCHANGED <<file, held, now, uuid, nextSid>>

\* list_sessions that starts by emptying the cache.
StartSvcList_Clearing(p, inst) ==
    /\ Ready(p)
    /\ LET ps == [procs EXCEPT ![p] = [Call("svc_list", inst, 0) EXCEPT !.pc = "list_read"]]
           c1 == [cache EXCEPT ![inst] = [k \in SessionIds |-> NoRef]]
       IN  /\ procs' = ps
           /\ cache' = c1
           /\ heap' = Collect(heap, c1, held, ps)
    /\ UNCHANGED <<file, held, now, uuid, nextSid>>

\* ConversationRepositoryService.list_sessions: the repository's list.
StartSvcList(p, inst) ==
    /\ Ready(p)
    /\ Goto(p, Call("svc_list", inst, 0), "list_read")
    /\ UNCHANGED <<file, cache, heap, held, now, uuid, nextSid>>

\* One step of the call or request p has in progress.
Step(p) ==
    \/ LoadRead(p)
    \/ LoadBuild(p)
    \/ SaveRead(p)
    \/ SaveSer(p)
    \/ SaveOpen(p)
    \/ SaveWrite(p)
    \/ DelRead(p)
    \/ DelOpen(p)
    \/ DelWrite(p)
    \/ ListRead(p)
    \/ ListLoad(p)

\* ----------------------------------------------------------- Init, SpecAgg
Titles == {"New Conversation", "t"}

InitBase ==
    /\ file = EmptyDoc
    /\ cache = [i \in Insts |-> [k \in SessionIds |-> NoRef]]
    /\ heap = [r \in Refs |-> Free]
    /\ held = {}
    /\ procs = [p \in Procs |-> IdleProc]
    /\ now = 0
    /\ uuid = 0
    /\ nextSid = 1

\* One caller holding one session it has just constructed; in SpecAgg the
\* clock stands still.
InitAgg ==
    /\ file = EmptyDoc
    /\ cache = [i \in Insts |-> [k \in SessionIds |-> NoRef]]
    /\ heap = [r \in Refs |-> IF r = 1 THEN NewSession(1, "t", "pending", 0, 0) ELSE Free]
    /\ held = {1}
    /\ procs = [p \in Procs |-> IdleProc]
    /\ now = 0
    /\ uuid = 0
    /\ nextSid = 2

\* The event types the documents name, and one nobody names.
EventTypeInputs ==
    {"message", "title", "plan", "step", "tool", "error", "done",
     "session_created", "message_received", "message_sent", "tool_invoked",
     "shell_executed", "file_operation", "status_changed", "bogus"}

DataInputs == {{<<"content", Str(<<"hi">>, 2, FALSE)>>}}

RoleInputs == {"user", "assistant", "system", "admin"}

ContentInputs ==
    {Str(<<>>, 0, TRUE), Str(<<" ">>, 1, TRUE), Str(<<"a">>, 1, FALSE),
     Str(<<"a..a">>, MaxContentLen, FALSE), Str(<<" .. ">>, MaxContentLen, TRUE),
     Str(<<"a..a">>, MaxContentLen + 1, FALSE)}

\* The statuses the documents name.
StatusInputs == {"pending", "running", "completed", "failed", "cancelled", "stopped"}

NextAgg ==
    \/ \E r \in Refs, t \in EventTypeInputs, d \in DataInputs : CallAddEvent(1, r, t, d)
    \/ \E r \in Refs, ro \in RoleInputs, c \in ContentInputs : CallAddMessage(1, r, ro, c)

SpecAgg == InitAgg /\ [][NextAgg]_vars

\* The statuses a caller passes: the documented ones and one nobody names.
StatusArgs == StatusInputs \cup {"bogus"}

\* One caller that changes the status of its session between messages.
NextStatus ==
    \/ Tick
    \/ \E r \in Refs, st \in StatusArgs : CallUpdateStatus(1, r, st)
    \/ \E r \in Refs : CallAddMessage(1, r, "user", Str(<<"hi">>, 2, FALSE))

SpecStatus == InitAgg /\ [][NextStatus]_vars

Hi == Str(<<"hi">>, 2, FALSE)

\* ------------------------------------------------------------- SpecOps
\* A file path, and what strip() leaves nothing of.
PathInputs == {Str(<<"/tmp/a">>, 6, FALSE), Str(<<" ">>, 1, TRUE)}

FileOpInputs == {"write", "chmod"}

\* One caller that uses every operation of the aggregate on its session,
\* with arguments the aggregate takes and arguments it rejects; the clock
\* stands still.
NextOps ==
    \/ \E t \in {"message", "bogus"}, d \in DataInputs : CallAddEvent(1, 1, t, d)
    \/ \E ro \in RoleInputs : CallAddMessage(1, 1, ro, Hi)
    \/ \E st \in {"running", "stopped"} : CallUpdateStatus(1, 1, st)
    \/ CallCreateShellSession(1, 1, "sh")
    \/ \E pa \in PathInputs, op \in FileOpInputs : CallAddFileOperation(1, 1, pa, op, Hi)
    \/ CallIncrementUnread(1, 1)
    \/ CallClearUnread(1, 1)

SpecOps == InitAgg /\ [][NextOps]_vars

\* One caller that uses the five operations that refresh last_updated, with
\* arguments the aggregate takes, while the clock goes on.
NextTouch ==
    \/ Tick
    \/ \E d \in DataInputs : CallAddEvent(1, 1, "message", d)
    \/ CallAddMessage(1, 1, "user", Hi)
    \/ \E st \in {"pending", "running"} : CallUpdateStatus(1, 1, st)
    \/ CallCreateShellSession(1, 1, "sh")
    \/ CallAddFileOperation(1, 1, Str(<<"/tmp/a">>, 6, FALSE), "write", Hi)

SpecTouch == InitAgg /\ [][NextTouch]_vars

\* ------------------------------------------------------------- SpecRepo
\* The caller lets go of the object r.
Drop(r) ==
    /\ r \in held
    /\ held' = held \ {r}
    /\ heap' = Collect(heap, cache, held \ {r}, procs)
    /\ UNCHANGED <<file, cache, procs, now, uuid, nextSid>>

RepoEventTypes == {"message", "message_received"}


ReadOps == {"get_session", "history"}

\* One caller with a session of its own (object 1) that it adds to, the
\* repository, and the read requests of the application service and the
\* list of the domain service, each on a service built for it.
NextRepo ==
    \/ Tick
    \/ \E t \in RepoEventTypes, d \in DataInputs : CallAddEvent(1, 1, t, d)
    \/ CallAddMessage(1, 1, "user", Hi)
    \/ \E r \in Refs : StartRepoSave(1, r)
    \/ \E sid \in SessionIds : StartRepoLoad(1, sid)
    \/ \E op \in ReadOps, sid \in SessionIds : StartGet(1, op, 1, sid, EmptyStr)
    \/ StartSvcList(1, 1)
    \/ \E r \in Refs : Drop(r)
    \/ LoadRead(1)
    \/ LoadBuild(1)
    \/ SaveRead(1)
    \/ SaveSer(1)
    \/ SaveOpen(1)
    \/ SaveWrite(1)
    \/ ListRead(1)
    \/ ListLoad(1)

SpecRepo == InitAgg /\ [][NextRepo]_vars

\* -------------------------------------------------------------- SpecSvc
\* One long-lived domain service (instance 0) and one caller, one call at a
\* time.  The caller also works on the sessions create handed it, adding up
\* to MaxSvcAdds messages to them and saving them through a repository of
\* its own, and lets go of them.  The clock stands still.
NextSvc ==
    \/ StartSvcCreate(1, 0, "t")
    \/ \E op \in SvcGetOps, sid \in SessionIds : StartSvcGet(1, op, 0, sid)
    \/ \E sid \in SessionIds : StartSvcDelete(1, 0, sid)
    \/ StartSvcList(1, 0)
    \/ \E r \in Refs : uuid < MaxSvcAdds /\ CallAddMessage(1, r, "user", Hi)
    \/ \E r \in Refs : StartRepoSave(1, r)
    \/ \E r \in Refs : Drop(r)
    \/ Step(1)

SpecSvc == InitBase /\ [][NextSvc]_vars

\* ------------------------------------------------------------- SpecRace
\* Two callers of the repository working on the same session id: each loads
\* the session into an aggregate of its own, adds a message to it and saves
\* it, in any interleaving of the suspension points of load and save; an
\* aggregate is not changed while a save of it is under way.  The session
\* starts as the aggregate caller 1 constructed (object 1).
NextRace ==
    \/ \E p \in Procs, r \in Refs :
           /\ uuid < MaxSvcAdds
           /\ \A q \in Procs : procs[q].sess # r
           /\ CallAddMessage(p, r, "user", Hi)
    \/ \E p \in Procs, r \in Refs : StartRepoSave(p, r)
    \/ \E p \in Procs : StartRepoLoad(p, 1)
    \/ \E r \in Refs : Drop(r)
    \/ \E p \in Procs : LoadRead(p)
    \/ \E p \in Procs : LoadBuild(p)
    \/ \E p \in Procs : SaveRead(p)
    \/ \E p \in Procs : SaveSer(p)
    \/ \E p \in Procs : SaveOpen(p)
    \/ \E p \in Procs : SaveWrite(p)

SpecRace == InitAgg /\ [][NextRace]_vars

\* ----------------------------------------------------------- SpecCreate
\* Requests that create sessions and read them, each on a service of its
\* own, interleaved at their suspension points; nothing is ever deleted.
NextCreate ==
    \/ \E p \in Procs : StartCreate(p, p, "t")
    \/ \E p \in Procs, sid \in SessionIds : StartGet(p, "get_session", p, sid, EmptyStr)
    \/ \E p \in Procs : LoadRead(p)
    \/ \E p \in Procs : LoadBuild(p)
    \/ \E p \in Procs : SaveRead(p)
    \/ \E p \in Procs : SaveSer(p)
    \/ \E p \in Procs : SaveOpen(p)
    \/ \E p \in Procs : SaveWrite(p)

SpecCreate == InitBase /\ [][NextCreate]_vars

\* ------------------------------------------------------------ SpecFiles
\* One caller that records file operations, events and messages on its
\* session (object 1), saves it through the repository and loads it back.
NextFiles ==
    \/ CallAddFileOperation(1, 1, Str(<<"/tmp/a">>, 6, FALSE), "write", Hi)
    \/ \E d \in DataInputs : uuid < MaxSvcAdds /\ CallAddEvent(1, 1, "message", d)
    \/ uuid < MaxSvcAdds /\ CallAddMessage(1, 1, "user", Hi)
    \/ StartRepoSave(1, 1)
    \/ StartRepoLoad(1, 1)
    \/ \E r \in Refs \ {1} : Drop(r)
    \/ LoadRead(1)
    \/ LoadBuild(1)
    \/ SaveRead(1)
    \/ SaveSer(1)
    \/ SaveOpen(1)
    \/ SaveWrite(1)

SpecFiles == InitAgg /\ [][NextFiles]_vars

\* ------------------------------------------------------------- SpecHist
\* No call or request is in progress.
Quiet == \A q \in Procs : Ready(q)

NoHistoryYet == \A q \in Procs : procs[q].op # "history"

\* A caller builds a session (object 1) and saves it; from the first
\* GetSessionHistory on, nothing changes the session any more, and the two
\* callers ask for its history, one request at a time, on one long-lived
\* application service (instance 0), while the clock goes on.
NextHist ==
    \/ Tick
    \/ \E d \in DataInputs : NoHistoryYet /\ CallAddEvent(1, 1, "message", d)
    \/ NoHistoryYet /\ CallAddMessage(1, 1, "user", Hi)
    \/ NoHistoryYet /\ StartRepoSave(1, 1)
    \/ \E p \in Procs, sid \in SessionIds : Quiet /\ StartGet(p, "history", 0, sid, EmptyStr)
    \/ \E p \in Procs : LoadRead(p)
    \/ \E p \in Procs : LoadBuild(p)
    \/ SaveRead(1)
    \/ SaveSer(1)
    \/ SaveOpen(1)
    \/ SaveWrite(1)

SpecHist == InitAgg /\ [][NextHist]_vars

\* ----------------------------------------------------------- SpecReload
\* One caller that builds a session (object 1) with a message and file
\* operations, saves it through the repository, loads it back and saves
\* what load returned, one call at a time, while the clock goes on.
NextReload ==
    \/ Tick
    \/ CallAddFileOperation(1, 1, Str(<<"/tmp/a">>, 6, FALSE), "write", Hi)
    \/ uuid < MaxSvcAdds /\ CallAddMessage(1, 1, "user", Hi)
    \/ \E r \in Refs : StartRepoSave(1, r)
    \/ StartRepoLoad(1, 1)
    \/ \E r \in Refs \ {1} : Drop(r)
    \/ LoadRead(1)
    \/ LoadBuild(1)
    \/ SaveRead(1)
    \/ SaveSer(1)
    \/ SaveOpen(1)
    \/ SaveWrite(1)

SpecReload == InitAgg /\ [][NextReload]_vars

\* ----------------------------------------------------------- SpecWindow
\* One writer (request 2) that creates and deletes sessions, and one reader
\* (request 1) that gets sessions, each on a service built for it,
\* interleaved at their suspension points.  Nobody else writes the document.
NextWindow ==
    \/ StartCreate(2, 2, "t")
    \/ \E sid \in SessionIds : StartDelete(2, 2, sid)
    \/ \E sid \in SessionIds : StartGet(1, "get_session", 1, sid, EmptyStr)
    \/ LoadRead(1)
    \/ LoadBuild(1)
    \/ SaveRead(2)
    \/ SaveSer(2)
    \/ SaveOpen(2)
    \/ SaveWrite(2)
    \/ DelRead(2)
    \/ DelOpen(2)
    \/ DelWrite(2)

SpecWindow == InitBase /\ [][NextWindow]_vars

\* -------------------------------------------------------------- SpecSeq
GetOps == {"get_session", "history", "stop_session"}

\* One long-lived application service (instance 0), one request at a time:
\* caller 2 creates, chats and deletes, caller 1 asks and deletes.  The
\* clock stands still.
NextSeq ==
    \/ \E title \in Titles : Quiet /\ StartCreate(2, 0, title)
    \/ \E sid \in SessionIds : Quiet /\ StartGet(2, "process_chat_message", 0, sid, Hi)
    \/ \E p \in Procs, sid \in SessionIds : Quiet /\ StartDelete(p, 0, sid)
    \/ \E sid \in SessionIds : Quiet /\ StartGet(1, "get_session", 0, sid, EmptyStr)
    \/ Quiet /\ StartList(1, 0)
    \/ \E p \in Procs : Step(p)

SpecSeq == InitBase /\ [][NextSeq]_vars

\* -------------------------------------------------------------- SpecApp
\* The message texts a client sends: one the aggregate takes, one it rejects.
AppMessages == {Hi, EmptyStr}

AppGetOps == {"get_session", "stop_session"}

\* One long-lived application service (instance 0) answering the six
\* operations one at a time, next to a caller that holds a session of its
\* own (object 1), adds events to it and saves it through the repository,
\* so that the Store holds records the application service did not write.
NextApp ==
    \/ \E d \in DataInputs : uuid < MaxSvcAdds /\ CallAddEvent(1, 1, "message", d)
    \/ StartRepoSave(1, 1)
    \/ StartCreate(1, 0, "t")
    \/ \E op \in AppGetOps, sid \in SessionIds : StartGet(1, op, 0, sid, EmptyStr)
    \/ \E sid \in SessionIds, m \in AppMessages : StartGet(1, Chat, 0, sid, m)
    \/ \E sid \in SessionIds : StartDelete(1, 0, sid)
    \/ StartList(1, 0)
    \/ Step(1)

SpecApp == InitAgg /\ [][NextApp]_vars


\* ----------------------------------------------------------------- Spec
\* The HTTP application: every request gets a service, a repository and a
\* cache of its own (get_conversation_service), and requests interleave at
\* their suspension points.
Next ==
    \/ Tick
    \/ \E p \in Procs : StartCreate(p, p, "New Conversation")
    \/ \E p \in Procs, op \in GetOps, sid \in SessionIds : StartGet(p, op, p, sid, EmptyStr)
    \/ \E p \in Procs, sid \in SessionIds : StartGet(p, "process_chat_message", p, sid, Hi)
    \/ \E p \in Procs, sid \in SessionIds : StartDelete(p, p, sid)
    \/ \E p \in Procs : StartList(p, p)
    \/ \E p \in Procs : Step(p)

Spec == InitBase /\ [][Next]_vars

\* ------------------------------------------------ claims on the aggregate
\* The event types the data model lists as canonical.
CanonicalEventTypes ==
    {"message", "title", "plan", "step", "tool", "error", "done",
     "session_created", "message_received", "message_sent", "tool_invoked",
     "shell_executed", "file_operation", "status_changed"}

\* C7: an add_event the aggregate accepts appends exactly one event: the
\* list is one longer, its earlier elements are unchanged and in order, and
\* the last element carries the given type and data and the session's id.
C7_AddEventAppendsOne ==
    [][\A r \in Refs, t \in EventTypeInputs, d \in DataInputs :
          (procs'[1].op = "add_event" /\ procs'[1].exc = "none" /\ CallAddEvent(1, r, t, d)) =>
              /\ Len(heap'[r].events) = Len(heap[r].events) + 1
              /\ SubSeq(heap'[r].events, 1, Len(heap[r].events)) = heap[r].events
              /\ LET e == heap'[r].events[Len(heap'[r].events)]
                 IN  /\ e.event_type = t
                     /\ e.data = d
                     /\ e.session_id = heap[r].session_id]_vars

C7_Witness ==
    /\ procs[1].op = "add_event"
    /\ procs[1].exc = "none"
    /\ Len(heap[procs[1].obj].events) >= 2

\* C8: add_event with a type outside the canonical set raises a validation
\* error and leaves the whole session as it was.
C8_RejectedEventChangesNothing ==
    [][\A r \in Refs, t \in EventTypeInputs \ CanonicalEventTypes, d \in DataInputs :
          (procs'[1].op = "add_event" /\ CallAddEvent(1, r, t, d)) =>
              /\ procs'[1].exc = "ValueError"
              /\ heap'[r] = heap[r]]_vars

C8_Witness ==
    /\ procs[1].op = "add_event"
    /\ procs[1].exc = "ValueError"
    /\ Len(heap[procs[1].obj].events) >= 1
    /\ Len(heap[procs[1].obj].messages) >= 1

\* C9 as stated: add_message fails for content of length 0 and of length
\* 10,001 or more, and succeeds for every content of length 1 to 10,000.
C9_LengthAloneDecides ==
    [][\A r \in Refs, ro \in {"user", "assistant"}, c \in ContentInputs :
          (procs'[1].op = "add_message" /\ CallAddMessage(1, r, ro, c)) =>
              (procs'[1].exc = "none" <=> (c.len >= 1 /\ c.len <= 10000))]_vars

\* C9 amended: add_message fails for content of length 0, for content of
\* length 10,001 or more and for content that is only whitespace, and
\* succeeds for every other content of length 1 to 10,000.
C9_LengthAndBlankDecide ==
    [][\A r \in Refs, ro \in {"user", "assistant"}, c \in ContentInputs :
          (procs'[1].op = "add_message" /\ CallAddMessage(1, r, ro, c)) =>
              /\ procs'[1].exc = "none" <=> (c.len >= 1 /\ c.len <= 10000 /\ ~c.blank)
              /\ procs'[1].exc # "none" => procs'[1].exc = "ValueError"]_vars

C9_Witness ==
    /\ procs[1].op = "add_message"
    /\ procs[1].exc = "none"
    /\ \E i \in 1..Len(heap[procs[1].obj].messages) :
           heap[procs[1].obj].messages[i].content.len = 10000

\* C10: add_event succeeds for each of the 14 canonical event types and
\* fails for every other type.
C10_CanonicalTypesAccepted ==
    [][\A r \in Refs, t \in EventTypeInputs, d \in DataInputs :
          (procs'[1].op = "add_event" /\ CallAddEvent(1, r, t, d)) =>
              (procs'[1].exc = "none" <=> t \in CanonicalEventTypes)]_vars

\* C12: from every current status, update_status(s) succeeds for each of
\* the six statuses pending, running, completed, failed, cancelled, stopped
\* and leaves the session with status s.
C12_EveryStatusAccepted ==
    [][\A r \in Refs, st \in StatusInputs :
          CallUpdateStatus(1, r, st) =>
              /\ procs'[1].exc = "none"
              /\ heap'[r].status = st]_vars

\* -------------------------------------------------- claims on the service
\* p's call or request returns in this step.
Returns(p) == procs'[p].pc = "done" /\ procs'[p] # procs[p]

\* q's last request was `op`, and it was answered with code 0.
Answered(q, op) == procs[q].pc = "done" /\ procs[q].op = op /\ procs[q].ret.code = 0


\* C1: once two SendMessage requests against the same stored session have
\* both been answered with code 0, the stored record of that session holds
\* both sent messages, at least two messages.
C1_BothMessagesPersisted ==
    (Answered(1, Chat) /\ Answered(2, Chat) /\ procs[1].sid = procs[2].sid)
        => /\ IsRec(file[procs[1].sid])
           /\ Len(file[procs[1].sid].messages) >= 2

\* C2: a GetSession for the id CreateSession has just answered with, the
\* session still being stored, is answered with code 0 and an events list
\* that holds a session_created record.
C2_GetAfterCreateShowsCreated ==
    [][(Returns(1) /\ procs'[1].op = "get_session" /\ Answered(2, "create_session")
          /\ procs'[1].sid = procs[2].ret.data.session_id /\ IsRec(file[procs'[1].sid]))
        => /\ procs'[1].ret.code = 0
           /\ \E i \in 1..Len(procs'[1].ret.data.events) :
                  procs'[1].ret.data.events[i].event_type = "session_created"]_vars

\* What the round trip is to keep of a message and of an event.
MessageView(m) == [role |-> m.role, content |-> m.content, timestamp |-> m.timestamp]

EventView(e) == [event_type |-> e.event_type, data |-> e.data]

\* C3: a load of the id of a session that is stored as it stands (the
\* record read is the one a save of the session writes) returns a session
\* with the same messages (role, content, timestamp) and the same events
\* (event_type, data), in the same order.
C3_SaveLoadRoundTrip ==
    [][(Returns(1) /\ procs'[1].op = "repo_load" /\ 1 \in held
          /\ heap[1].session_id = procs[1].sid /\ Serialize(heap[1]) = Ok(procs[1].rec))
        => /\ procs'[1].exc = "none"
           /\ "ref" \in DOMAIN procs'[1].ret.data
           /\ LET o == heap'[procs'[1].ret.data.ref]
              IN  /\ SeqMap(MessageView, o.messages) = SeqMap(MessageView, heap[1].messages)
                  /\ SeqMap(EventView, o.events) = SeqMap(EventView, heap[1].events)]_vars

\* C4: once a delete of an id has been answered with code 0, a GetSession
\* and a further delete of that id are answered with code 404, whether or
\* not the service had the session in its cache before the delete.
C4_DeletedStaysDeleted ==
    [][\A p, q \in Procs :
          (Returns(p) /\ p # q /\ procs'[p].op \in {"get_session", "delete_session"}
             /\ Answered(q, "delete_session") /\ procs'[p].sid = procs[q].sid)
            => procs'[p].ret.code = 404]_vars

C4_Witness ==
    /\ Answered(2, "delete_session")
    /\ procs[1].pc = "done" /\ procs[1].op = "get_session"
    /\ procs[1].sid = procs[2].sid /\ procs[1].ret.code = 404
    /\ nextSid > procs[1].sid

\* C5: with exactly one successful SendMessage made so far, ListSessions
\* reports for the session that received it, if it is still stored, a
\* latest_message equal to the last of its messages (the assistant's
\* response), and for every other session an empty latest_message with
\* latest_message_at 0.
C5_ListShowsLatestMessage ==
    [][(Returns(1) /\ procs'[1].op = "list_sessions" /\ Answered(2, Chat)
          /\ uuid = 2 /\ IsRec(file[procs[2].sid]))
        => /\ procs'[1].ret.code = 0
           /\ LET l == procs'[1].ret.data.sessions
              IN  /\ \E i \in 1..Len(l) : l[i].session_id = procs[2].sid
                  /\ \A i \in 1..Len(l) :
                        IF l[i].session_id = procs[2].sid
                        THEN l[i].latest_message = procs[2].ret.data.response
                        ELSE l[i].latest_message = EmptyStr /\ l[i].latest_message_at = 0]_vars

IsHistoryRecord(d) == d.event_type \in {"message_received", "message_sent"}

HistoryView(d) ==
    [role |-> IF d.event_type = "message_received" THEN "user" ELSE "assistant",
     content |-> DictGet(d.data, "content", EmptyStr)]

EntryView(m) == [role |-> m.role, content |-> m.content]

\* C6: GetSessionHistory for a stored session that loads is answered with
\* code 0 and one entry per message_received or message_sent event of the
\* stored event log, in the log's order, with role user or assistant and
\* the content of the event's data; no other event contributes an entry.
C6_HistoryFollowsEventLog ==
    [][(Returns(1) /\ procs'[1].op = "history" /\ procs[1].pc = "load_build"
          /\ IsRec(procs[1].rec) /\ Deserialize(procs[1].rec, now).exc = "none")
        => /\ procs'[1].ret.code = 0
           /\ SeqMap(EntryView, procs'[1].ret.data.messages)
                = SeqMap(HistoryView, SelectSeq(procs[1].rec.events, IsHistoryRecord))]_vars

\* ------------------------------------------- claims on the domain service
\* C11: stop(id) of a session that is cached or stored returns true and
\* leaves the stored record and the cached session with status stopped;
\* stop(id) of any other id returns false and changes neither the document
\* nor the cache.
C11_StopStoresStopped ==
    [][(Returns(1) /\ procs'[1].op = "svc_stop") =>
          LET sid == procs'[1].sid
          IN  IF IsRec(file[sid]) \/ cache[0][sid] # NoRef
              THEN /\ procs'[1].exc = "none"
                   /\ procs'[1].ret = Bool(TRUE)
                   /\ IsRec(file'[sid]) /\ file'[sid].status = "stopped"
                   /\ cache'[0][sid] # NoRef /\ heap'[cache'[0][sid]].status = "stopped"
              ELSE /\ procs'[1].ret = Bool(FALSE)
                   /\ file' = file /\ cache' = cache]_vars

\* C13: a get(id) entered while id is cached returns the cached object at
\* once, reading nothing and changing nothing; a get(id) that missed the
\* cache returns the session built from the record it read and leaves it in
\* the cache, or leaves the cache alone when there is no record; and a
\* cache entry, once there, goes or changes only when a delete of its id is
\* entered.
C13_GetIsCacheFirst ==
    [][LET sid == procs'[1].sid
       IN  /\ (procs'[1].op = "svc_get" /\ procs'[1] # procs[1] /\ Ready(1)
                 /\ cache[0][sid] # NoRef)
                => /\ procs'[1].pc = "done"
                   /\ procs'[1].ret = Retd([ref |-> cache[0][sid]])
                   /\ cache' = cache /\ file' = file
                   /\ heap'[cache[0][sid]] = heap[cache[0][sid]]
           /\ (procs'[1].op = "svc_get" /\ Returns(1) /\ procs[1].pc = "load_build")
                => IF IsRec(procs[1].rec)
                   THEN /\ cache'[0][sid] # NoRef
                        /\ procs'[1].ret = Retd([ref |-> cache'[0][sid]])
                        /\ heap'[cache'[0][sid]] = Deserialize(procs[1].rec, now).val
                   ELSE procs'[1].ret = Retd(NoData) /\ cache' = cache
           /\ \A k \in SessionIds :
                (cache[0][k] # NoRef /\ cache'[0][k] # cache[0][k])
                  => procs'[1].op = "svc_delete" /\ procs'[1].sid = k
                       /\ procs'[1].pc = "del_read"]_vars

\* get(id) has answered from the cache while the stored record holds a
\* message the cached session does not have.
C13_Witness ==
    /\ procs[1].pc = "done" /\ procs[1].op = "svc_get"
    /\ cache[0][procs[1].sid] # NoRef
    /\ procs[1].ret = Retd([ref |-> cache[0][procs[1].sid]])
    /\ IsRec(file[procs[1].sid])
    /\ Len(file[procs[1].sid].messages) > Len(heap[cache[0][procs[1].sid]].messages)

\* C14: create(title) returns a new session with status pending, the given
\* title and no messages and no events; when it returns the document holds
\* a record for the new id with that status and title, and the cache holds
\* nothing for the id.
C14_CreateStoresPending ==
    [][(Returns(1) /\ procs'[1].op = "svc_create") =>
          LET sid == procs'[1].sid
          IN  /\ procs'[1].exc = "none"
              /\ "ref" \in DOMAIN procs'[1].ret.data
              /\ LET o == heap'[procs'[1].ret.data.ref]
                 IN  /\ o.session_id = sid
                     /\ o.status = "pending" /\ o.title = procs'[1].title
                     /\ o.messages = <<>> /\ o.events = <<>>
              /\ IsRec(file'[sid])
              /\ file'[sid].status = "pending" /\ file'[sid].title = procs'[1].title
              /\ cache'[0][sid] = NoRef]_vars

C14_Witness ==
    /\ procs[1].pc = "done" /\ procs[1].op = "svc_create"
    /\ "ref" \in DOMAIN procs[1].ret.data
    /\ IsRec(file[procs[1].sid])
    /\ procs[1].sid = 2

\* C15: a delete(id) run on its own evicts id from the cache when it is
\* entered and touches no other cache entry; it reads the document, returns
\* false and writes nothing when the document has no record for id, and
\* otherwise returns true having written the document it read without id,
\* every other record as it was.
C15_DeleteRemovesOnlyId ==
    [][(procs'[1].op = "svc_delete" /\ procs'[1] # procs[1]) =>
          LET sid == procs'[1].sid
          IN  /\ cache'[0][sid] = NoRef
              /\ \A k \in SessionIds \ {sid} :
                    /\ cache'[0][k] = cache[0][k]
                    /\ cache[0][k] # NoRef => heap'[cache[0][k]] = heap[cache[0][k]]
              /\ CASE procs'[1].pc = "del_read" -> file' = file
                   [] procs'[1].pc = "del_open" ->
                        file' = file /\ procs'[1].doc = file /\ IsRec(file[sid])
                   [] procs'[1].pc = "del_write" -> procs'[1].doc = procs[1].doc
                   [] procs'[1].pc = "done" /\ procs[1].pc = "del_read" ->
                        ~IsRec(file[sid]) /\ procs'[1].ret = Bool(FALSE) /\ file' = file
                   [] procs'[1].pc = "done" /\ procs[1].pc = "del_write" ->
                        /\ procs'[1].ret = Bool(TRUE)
                        /\ file'[sid] = NoRec
                        /\ \A k \in SessionIds \ {sid} : file'[k] = procs[1].doc[k]
                   [] OTHER -> FALSE]_vars

C15_Witness ==
    /\ procs[1].pc = "done" /\ procs[1].op = "svc_delete"
    /\ procs[1].ret = Bool(TRUE)
    /\ \E k \in SessionIds \ {procs[1].sid} : IsRec(file[k])

\* C16: list() returns one session per record of the document, each built
\* from its stored record, and leaves the cache as it was.
C16_ListReflectsStore ==
    [][(Returns(1) /\ procs'[1].op = "svc_list") =>
          /\ procs'[1].exc = "none"
          /\ "sessions" \in DOMAIN procs'[1].ret.data
          /\ LET l == procs'[1].ret.data.sessions
             IN  /\ Len(l) = Cardinality({k \in SessionIds : IsRec(file[k])})
                 /\ \A i \in 1..Len(l) :
                       /\ IsRec(file[l[i].session_id])
                       /\ l[i] = Deserialize(file[l[i].session_id], now).val
                 /\ \A i, j \in 1..Len(l) : l[i].session_id = l[j].session_id => i = j
          /\ cache' = cache]_vars

\* C19: GetSession on a stored session that loads is answered with code 0,
\* the session's title, its status, and all of its events in the order of
\* the event log, whether the log is empty or not.
C19_GetSessionShowsAll ==
    [][(Returns(1) /\ procs'[1].op = "get_session" /\ procs[1].pc = "load_build"
          /\ IsRec(procs[1].rec) /\ Deserialize(procs[1].rec, now).exc = "none")
        => /\ procs'[1].ret.code = 0
           /\ procs'[1].ret.data.title = procs[1].rec.title
           /\ SeqMap(EventView, procs'[1].ret.data.events)
                = SeqMap(EventView, procs[1].rec.events)
           /\ "status" \in DOMAIN procs'[1].ret.data
           /\ procs'[1].ret.data.status = procs[1].rec.status]_vars

\* C20: when a SendMessage is answered with code 0, the session's messages
\* end with the user message followed by the assistant response, the
\* message_id of the answer is the assistant message's, and the stored
\* record of the session ends with the same two messages.
C20_SendMessagePersistsBoth ==
    [][(Returns(2) /\ procs'[2].op = Chat /\ procs'[2].ret.code = 0)
        => LET sid == procs'[2].sid
               r == cache'[0][sid]
               ms == IF r = NoRef THEN <<>> ELSE heap'[r].messages
               n == Len(ms)
               fs == IF IsRec(file'[sid]) THEN file'[sid].messages ELSE <<>>
               k == Len(fs)
           IN  /\ n >= 2
               /\ ms[n - 1].role = "user" /\ ms[n - 1].content = procs'[2].msg
               /\ ms[n].role = "assistant"
               /\ ms[n].content = procs'[2].ret.data.response
               /\ ms[n].message_id.value = procs'[2].ret.data.message_id
               /\ k >= 2
               /\ fs[k - 1] = SerMessage(ms[n - 1])
               /\ fs[k] = SerMessage(ms[n])]_vars

\* The six operations of the application service.
FacadeOps == {"create_session", "get_session", "list_sessions",
              "delete_session", "stop_session", Chat}

\* What the caller can see of a success of the operation that returns in
\* this step, the request being pr, its answer a, and doc the document it
\* had read before the step.
Succeeded(pr, doc, a) ==
    LET r == cache'[0][pr.sid]
    IN  CASE pr.op = "create_session" ->
                 IsRec(file'[pr.sid]) /\ a.data = [session_id |-> pr.sid]
          [] pr.op = "get_session" ->
                 r # NoRef /\ a.data.title = heap'[r].title
                           /\ Len(a.data.events) = Len(heap'[r].events)
          [] pr.op = "list_sessions" ->
                 Len(a.data.sessions) = Cardinality({k \in SessionIds : IsRec(file'[k])})
          [] pr.op = "delete_session" ->
                 IsRec(doc[pr.sid]) /\ ~IsRec(file'[pr.sid]) /\ r = NoRef
          [] pr.op = "stop_session" ->
                 r # NoRef /\ heap'[r].status = "stopped"
          [] pr.op = Chat ->
                 r # NoRef /\ Len(heap'[r].messages) >= 2
                           /\ heap'[r].messages[Len(heap'[r].messages)].message_id.value
                                = a.data.message_id

\* C17: every operation of the application service that returns hands back
\* an envelope {code, msg, data} with code 0, 404 or 500 and raises nothing,
\* whatever the input and whatever the Store and the aggregate did; the code
\* is 0 only when the operation succeeded.
C17_AlwaysAnEnvelope ==
    [][(Returns(1) /\ procs'[1].op \in FacadeOps)
        => /\ procs'[1].exc = "none"
           /\ DOMAIN procs'[1].ret = {"code", "msg", "data"}
           /\ procs'[1].ret.code \in {0, 404, 500}
           /\ procs'[1].ret.code # 0 => procs'[1].ret.data = NoData
           /\ procs'[1].ret.code = 0 => Succeeded(procs'[1], procs[1].doc, procs'[1].ret)]_vars

\* An operation of the application service has been answered with code 500
\* after the Store raised, and the caller got no exception.
C17_Witness ==
    /\ procs[1].pc = "done" /\ procs[1].op = "get_session"
    /\ procs[1].exc = "none"
    /\ procs[1].ret.code = 500 /\ procs[1].ret.msg = "UnboundLocalError"

\* The request pr is one by id for an id that is in neither the Store nor
\* the cache of the service it goes to, and that was not in what the request
\* has read of the Store so far (the locals `old` it had before the step).
UnknownId(pr, old) ==
    /\ pr.op \in {"get_session", "delete_session", "stop_session", Chat}
    /\ ~IsRec(file[pr.sid]) /\ ~IsRec(old.doc[pr.sid]) /\ ~IsRec(old.rec)
    /\ cache[pr.inst][pr.sid] = NoRef

\* C18: GetSession, DeleteSession, StopSession and SendMessage for an id
\* that is in neither the Store nor the cache change neither of them at any
\* step, and return code 404 with data null.
C18_UnknownIdIs404 ==
    [][(procs'[1] # procs[1] /\ procs'[1].pc # "idle" /\ UnknownId(procs'[1], procs[1]))
        => /\ file' = file
           /\ cache' = cache
           /\ Returns(1) => /\ procs'[1].exc = "none"
                            /\ procs'[1].ret.code = 404
                            /\ procs'[1].ret.data = NoData]_vars

\* Each of the four operations has met an unknown id: here SendMessage has
\* been answered with 404 while the Store holds another session.
C18_Witness ==
    /\ procs[1].pc = "done" /\ procs[1].op = Chat
    /\ procs[1].ret.code = 404
    /\ ~IsRec(file[procs[1].sid]) /\ cache[0][procs[1].sid] = NoRef
    /\ \E k \in SessionIds : IsRec(file[k])

\* C21: StopSession of the application service on a session that is in the
\* Store returns code 0, and when it returns the stored status of the
\* session, the one ListSessions reports, is stopped.
C21_StopPersistsStopped ==
    [][(Returns(1) /\ procs'[1].op = "stop_session" /\ IsRec(file[procs'[1].sid]))
        => /\ procs'[1].ret.code = 0
           /\ IsRec(file'[procs'[1].sid])
           /\ file'[procs'[1].sid].status = "stopped"]_vars

\* -------------------------------------- claims on the aggregate's history
IsPrefix(a, b) == Len(a) <= Len(b) /\ SubSeq(b, 1, Len(a)) = a

\* C22: messages and events are append-only: at every step of every
\* operation of the aggregate, accepted or rejected, the messages and the
\* events the session had are a prefix of the ones it has afterwards.
C22_AppendOnly ==
    [][\A r \in Refs : (IsRec(heap[r]) /\ IsRec(heap'[r])) =>
          /\ IsPrefix(heap[r].messages, heap'[r].messages)
          /\ IsPrefix(heap[r].events, heap'[r].events)]_vars

\* Every kind of operation has acted on a session that holds a message and
\* an event, and the last call was rejected.
C22_Witness ==
    /\ procs[1].exc = "ValueError"
    /\ Len(heap[1].messages) >= 1 /\ Len(heap[1].events) >= 1
    /\ Len(heap[1].shell_sessions) >= 1 /\ Len(heap[1].file_operations) >= 1
    /\ heap[1].status = "running"
    /\ heap[1].unread_message_count >= 1

\* datetime <= datetime
DTLeq(a, b) == a.sec < b.sec \/ (a.sec = b.sec /\ a.usec <= b.usec)

RefreshingOps == {"add_message", "add_event", "create_shell_session",
                  "add_file_operation", "update_status"}

\* C23: every accepted add_message, add_event, create_shell_session,
\* add_file_operation and update_status leaves last_updated at the reading
\* of the clock, which is not before the last_updated the session had and
\* not before its created_at.
C23_LastUpdatedRefreshed ==
    [][(procs'[1].pc = "done" /\ procs'[1].op \in RefreshingOps /\ procs'[1].exc = "none"
          /\ <<procs, heap>>' # <<procs, heap>>)
        => LET r == procs'[1].obj
           IN  /\ heap'[r].last_updated = DT(now)
               /\ DTLeq(heap[r].last_updated, heap'[r].last_updated)
               /\ DTLeq(heap'[r].created_at, heap'[r].last_updated)]_vars

\* update_status has been accepted after the clock went on: last_updated
\* is later than created_at.
C23_Witness ==
    /\ procs[1].pc = "done" /\ procs[1].op = "update_status" /\ procs[1].exc = "none"
    /\ heap[1].last_updated = DT(now)
    /\ heap[1].last_updated # heap[1].created_at
    /\ Len(heap[1].messages) >= 1 /\ Len(heap[1].file_operations) >= 1

\* The event type an operation of the application service fires.
FiredType(op) == IF op = "create_session" THEN "session_created" ELSE "message_received"

\* C24: a create_session or process_chat_message never returns code 0 with
\* the event it fired missing from the session's log (the cached session's,
\* or the stored record's for a session that is not cached): a rejected
\* event shows in the result.
C24_RejectedEventSurfaces ==
    [][(Returns(2) /\ procs'[2].op \in {"create_session", Chat} /\ procs'[2].ret.code = 0)
        => LET sid == procs'[2].sid
               r == cache'[0][sid]
               log == IF r # NoRef THEN heap'[r].events
                      ELSE IF IsRec(file'[sid]) THEN file'[sid].events ELSE <<>>
           IN  \E i \in 1..Len(log) : log[i].event_type = FiredType(procs'[2].op)]_vars

\* C25: the cache is shared by all requests of the process: when a request
\* q has obtained a session through get and added messages to it in memory
\* (a SendMessage answered with code 0), a request p that later asks for
\* the same id, still stored, finds in the cache of the service it goes to
\* the aggregate q worked on, with the message q's answer names.
C25_CacheSharedAcrossRequests ==
    [][\A p, q \in Procs :
          (p # q /\ Answered(q, Chat) /\ Ready(p) /\ procs'[p] # procs[p]
             /\ procs'[p].op \in GetOps \cup {Chat}
             /\ procs'[p].sid = procs[q].sid /\ IsRec(file[procs[q].sid]))
          => LET r == cache[procs'[p].inst][procs[q].sid]
             IN  /\ r # NoRef
                 /\ \E i \in 1..Len(heap[r].messages) :
                        heap[r].messages[i].message_id.value = procs[q].ret.data.message_id]_vars

\* C26: saves of the same id are last-write-wins without conflict
\* detection: while two aggregates of the same session exist, every save of
\* one of them that returns has succeeded, and the stored record of the id
\* is then exactly the snapshot of the aggregate that was saved.
C26_LastSaveWins ==
    [][\A p \in Procs :
          (Returns(p) /\ procs'[p].op = "repo_save"
             /\ \E r \in held \ {procs[p].sess} :
                    heap[r].session_id = heap[procs[p].sess].session_id)
          => /\ procs'[p].exc = "none"
             /\ file'[procs'[p].sid] = Serialize(heap[procs[p].sess]).val]_vars

\* C27: where nothing is deleted, a session that create has persisted stays
\* in the Store: whenever no request is under way, every session a
\* create_session has answered for has its record in the document.
C27_CreatedStaysStored ==
    Quiet => \A q \in Procs :
                 Answered(q, "create_session") => IsRec(file[procs[q].ret.data.session_id])

\* C28: file operations are written by save and not rebuilt by load: a save
\* of a session with file operations leaves all of them in the stored
\* record, and a load of a record with file operations returns a session
\* whose file_operations list is empty.
C28_FileOpsSavedNotLoaded ==
    [][/\ (Returns(1) /\ procs'[1].op = "repo_save"
             /\ Len(heap[procs[1].sess].file_operations) > 0)
          => /\ procs'[1].exc = "none"
             /\ file'[procs'[1].sid].file_operations
                  = SeqMap(SerFileOp, heap[procs[1].sess].file_operations)
       /\ (Returns(1) /\ procs'[1].op = "repo_load" /\ IsRec(procs[1].rec)
             /\ Len(procs[1].rec.file_operations) > 0)
          => /\ procs'[1].exc = "none"
             /\ "ref" \in DOMAIN procs'[1].ret.data
             /\ heap'[procs'[1].ret.data.ref].file_operations = <<>>]_vars

\* C29: add_message with a role other than user, assistant and system, or
\* with content that is empty (nothing, or nothing but whitespace) or longer
\* than 10,000 characters, raises a validation error and leaves messages,
\* events, last_updated and unread_message_count as they were; with any
\* other arguments it appends exactly one message, which carries the
\* session's id, the role and the content.
C29_AddMessageAllOrNothing ==
    [][\A r \in Refs, ro \in RoleInputs, c \in ContentInputs :
          (procs'[1].op = "add_message" /\ CallAddMessage(1, r, ro, c)) =>
              IF ro \notin {"user", "assistant", "system"}
                    \/ c.len = 0 \/ c.blank \/ c.len > 10000
              THEN /\ procs'[1].exc = "ValueError"
                   /\ heap'[r].messages = heap[r].messages
                   /\ heap'[r].events = heap[r].events
                   /\ heap'[r].last_updated = heap[r].last_updated
                   /\ heap'[r].unread_message_count = heap[r].unread_message_count
              ELSE /\ procs'[1].exc = "none"
                   /\ Len(heap'[r].messages) = Len(heap[r].messages) + 1
                   /\ SubSeq(heap'[r].messages, 1, Len(heap[r].messages)) = heap[r].messages
                   /\ LET m == heap'[r].messages[Len(heap'[r].messages)]
                      IN  /\ m.conversation_id = heap[r].session_id
                          /\ m.role = ro
                          /\ m.content = c]_vars

\* add_message has been rejected on a session that holds a message and an
\* event.
C29_Witness ==
    /\ procs[1].op = "add_message"
    /\ procs[1].exc = "ValueError"
    /\ Len(heap[procs[1].obj].messages) >= 1
    /\ Len(heap[procs[1].obj].events) >= 1

\* C30: update_status with a value outside the enum of Status (pending,
\* running, completed, failed, cancelled) raises a validation error and
\* leaves status and last_updated as they were; with a value of the enum it
\* sets the status to that value, whatever the status was.
C30_UpdateStatusAllOrNothing ==
    [][\A r \in Refs, st \in StatusArgs :
          CallUpdateStatus(1, r, st) =>
              IF st \in {"pending", "running", "completed", "failed", "cancelled"}
              THEN /\ procs'[1].exc = "none"
                   /\ heap'[r].status = st
              ELSE /\ procs'[1].exc = "ValueError"
                   /\ heap'[r].status = heap[r].status
                   /\ heap'[r].last_updated = heap[r].last_updated]_vars

\* update_status has been rejected on a session whose status had been
\* changed before, after the clock went on.
C30_Witness ==
    /\ procs[1].op = "update_status"
    /\ procs[1].exc = "ValueError"
    /\ heap[1].status = "completed"
    /\ heap[1].last_updated # DT(now)

\* C31: GetSessionHistory is a pure, idempotent projection: no step of a
\* history request changes the Store or the events, messages or status of
\* any session, and a history request answers exactly as the last history
\* request for the same id did when nothing has changed the session in
\* between.
C31_HistoryPureIdempotent ==
    [][\A p \in Procs :
          (procs'[p] # procs[p] /\ procs'[p].op = "history")
          => /\ file' = file
             /\ \A r \in Refs : (IsRec(heap[r]) /\ IsRec(heap'[r])) =>
                    /\ heap'[r].events = heap[r].events
                    /\ heap'[r].messages = heap[r].messages
                    /\ heap'[r].status = heap[r].status
             /\ \A q \in Procs \ {p} :
                    (Returns(p) /\ procs[q].pc = "done" /\ procs[q].op = "history"
                       /\ procs[q].sid = procs'[p].sid)
                    => procs'[p].ret = procs[q].ret]_vars

\* Two history requests for a stored session with a message have been
\* answered with code 0, the second from the cache and at a later time.
C31_Witness ==
    /\ \A q \in Procs : Answered(q, "history") /\ procs[q].sid = 1
    /\ IsRec(file[1]) /\ Len(file[1].messages) >= 1
    /\ cache[0][1] # NoRef
    /\ now > 0

\* C32: on one service instance an id that is in the cache stays there,
\* mapped to the same aggregate object, through every step of create, get,
\* list and stop calls and of the caller's own work; the one step that takes
\* an entry away is the entry of delete(id), for that id; and every cache
\* key is the session_id of the aggregate it maps to.
C32_CacheKeptUntilDelete ==
    [][/\ \A k \in SessionIds :
             cache[0][k] # NoRef
               => \/ cache'[0][k] = cache[0][k]
                  \/ /\ cache'[0][k] = NoRef
                     /\ procs'[1].op = "svc_delete" /\ procs'[1].sid = k
                     /\ procs'[1].pc = "del_read" /\ Ready(1)
       /\ \A k \in SessionIds :
             cache'[0][k] # NoRef
               => IsRec(heap'[cache'[0][k]]) /\ heap'[cache'[0][k]].session_id = k]_vars

\* A list has returned while the cache holds a session that is older than
\* its stored record.
C32_Witness ==
    /\ procs[1].pc = "done" /\ procs[1].op = "svc_list"
    /\ \E k \in SessionIds :
          /\ cache[0][k] # NoRef
          /\ IsRec(file[k])
          /\ Len(file[k].messages) > Len(heap[cache[0][k]].messages)

\* C33: a call of increment_unread_count raises unread_message_count by
\* exactly 1, a call of clear_unread_count sets it to 0, and a call of
\* add_message (whatever the role), add_event, create_shell_session,
\* add_file_operation or update_status, accepted or rejected, leaves it as
\* it was; the count is never negative.
C33_UnreadOnlyByCounterOps ==
    [][LET u == heap[1].unread_message_count
           v == heap'[1].unread_message_count
       IN  /\ CASE procs'[1].op = "increment_unread_count" -> v = u + 1
                [] procs'[1].op = "clear_unread_count" -> v = 0
                [] OTHER -> v = u
           /\ v >= 0]_vars

\* An assistant's message has been added to a session that has unread
\* messages counted.
C33_Witness ==
    /\ procs[1].pc = "done" /\ procs[1].op = "add_message" /\ procs[1].exc = "none"
    /\ heap[1].unread_message_count = MaxDirect
    /\ \E i \in 1..Len(heap[1].messages) : heap[1].messages[i].role = "assistant"
    /\ Len(heap[1].file_operations) >= 1

\* C34: once delete(id) has returned true, a load of id that reads the
\* document afterwards finds no record for id, whatever creates of other
\* sessions were under way during the delete.
C34_DeleteIsPermanent ==
    [][\A p \in Procs : \A q \in Procs \ {p} :
          (/\ procs[q].pc = "done" /\ procs[q].op = "delete_session"
           /\ procs[q].ret = DeleteAnswer(procs[q], TRUE)
           /\ procs[p].pc = "load_read" /\ procs[p].sid = procs[q].sid
           /\ procs'[p].pc = "load_build")
          => ~IsRec(procs'[p].rec)]_vars

\* The aggregate s is what load_session builds from the record rec.
IsLoadOf(s, rec) ==
    IsRec(rec) /\ \E t \in 0..MaxClock : Deserialize(rec, t) = Ok(s)

\* C35: a save of a session that load returned, while the record it was
\* loaded from is the stored one, does not raise and puts into the document
\* it writes the record that was there: the document to be written is the
\* document that was read.
C35_LoadedSessionSavesBack ==
    [][(/\ procs[1].pc = "save_ser" /\ procs[1].op = "repo_save"
        /\ procs'[1] # procs[1]
        /\ IsLoadOf(heap[procs[1].sess], procs[1].doc[procs[1].sid]))
       => /\ procs'[1].pc = "save_open"
          /\ procs'[1].doc = procs[1].doc]_vars

\* C36: load returns a session whose created_at and last_updated are the
\* ones stored in its record, whenever the load runs.
C36_LoadKeepsSessionTimestamps ==
    [][(/\ procs[1].pc = "load_build" /\ procs[1].op = "repo_load"
        /\ Returns(1) /\ "ref" \in DOMAIN procs'[1].ret.data)
       => LET s == heap'[procs'[1].ret.data.ref]
          IN  /\ s.created_at = fromisoformat(procs[1].rec.created_at)
              /\ s.last_updated = fromisoformat(procs[1].rec.last_updated)]_vars

\* C37: a load that reads the document while the only writer is between
\* opening the file for writing and finishing the write finds the record of
\* every session that was stored before the write and is not the one the
\* writer saves or deletes.
C37_NoTornRead ==
    [][(/\ procs[1].pc = "load_read" /\ procs'[1].pc = "load_build"
        /\ procs[2].pc \in {"save_write", "del_write"}
        /\ procs[1].sid # procs[2].sid
        /\ IsRec(procs[2].doc[procs[1].sid]))
       => IsRec(procs'[1].rec)]_vars

====
